---- MODULE Spec2Model ----
(***************************************************************************)
(* Model of main.py: a polling bot that fetches ticker, candles and open   *)
(* interest for a fixed list of symbols, asks an analysis service for a    *)
(* summary and relays a snapshot to a chat endpoint behind a cooldown      *)
(* marker kept in a file.                                                  *)
(*                                                                         *)
(* Time is counted in ticks, TicksPerSec ticks to the second, so that      *)
(* int(time.time()) really truncates.  Python values are tagged records:   *)
(* None, floats, exceptions, lists and dicts never compare across types.   *)
(* A text is a sequence of tokens; "\n" is the line break.  The analysis   *)
(* text is kept one character per token, because the code slices it.       *)
(***************************************************************************)
EXTENDS Integers, Sequences, FiniteSets, TLC

\* ---------------------------------------------------------------------
\* Bounds of the model
\* ---------------------------------------------------------------------
TicksPerSec == 2
MaxNow == 6
FrameMaxNow == 2
LiveMaxNow == 4
MaxCleanLines == 3
GateMaxNow == 8

\* ---------------------------------------------------------------------
\* Configuration (main.py:16-39)
\* ---------------------------------------------------------------------
POLL_INTERVAL == 1
MSG_COOLDOWN == 2
SYMBOLS == <<"BTCUSDT", "ETHUSDT", "SOLUSDT">>
TEST_SYMBOLS == <<"BTCUSDT", "ETHUSDT">>
TEST_SLEEP == 1
PROMPT_CANDLES == 10
SUMMARY_LINES == 6
CLEAN_LIMIT == 220
CLEAN_KEEP == 200
SNAP_MAX_LINES == 5
TEST_MAX_LINES == 6

\* ---------------------------------------------------------------------
\* Python values
\* ---------------------------------------------------------------------
None == [t |-> "None"]
Exc == [t |-> "exc"]
F(v) == [t |-> "float", v |-> v]
List(v) == [t |-> "list", v |-> v]
Text(v) == [t |-> "str", v |-> v]

\* a task handed to asyncio.gather that has not completed yet
Pending == [t |-> "pending"]
IsNone(x) == x.t = "None"
IsException(x) == x.t = "exc"

\* str() of the values the snapshot and the prompt interpolate
PyStr(x) ==
    CASE x.t = "None" -> "None"
      [] x.t = "float" /\ x.v = 0 -> "0.0"
      [] x.t = "float" /\ x.v = 7 -> "7.0"
      [] x.t = "float" /\ x.v = 12 -> "12.0"
      [] x.t = "float" /\ x.v = 50000 -> "50000.0"
      [] OTHER -> "?"

Range(s) == {s[i] : i \in DOMAIN s}

\* ---------------------------------------------------------------------
\* Text helpers: str.strip, str.splitlines, "\n".join, slices
\* ---------------------------------------------------------------------
IsSpace(c) == c \in {" ", "\n", "\t"}

RECURSIVE LStrip(_)
LStrip(s) == IF s = <<>> THEN s
             ELSE IF IsSpace(Head(s)) THEN LStrip(Tail(s)) ELSE s

RECURSIVE RStrip(_)
RStrip(s) == IF s = <<>> THEN s
             ELSE IF IsSpace(s[Len(s)]) THEN RStrip(SubSeq(s, 1, Len(s) - 1)) ELSE s

Strip(s) == RStrip(LStrip(s))

Prefix(s, n) == SubSeq(s, 1, IF Len(s) < n THEN Len(s) ELSE n)
Last(s, n) == SubSeq(s, (IF Len(s) < n THEN 0 ELSE Len(s) - n) + 1, Len(s))

RECURSIVE SplitLines(_)
SplitLines(s) ==
    IF s = <<>> THEN <<>>
    ELSE LET brk == {i \in DOMAIN s : s[i] = "\n"}
         IN IF brk = {} THEN <<s>>
            ELSE LET i == CHOOSE j \in brk : \A k \in brk : j <= k
                 IN <<SubSeq(s, 1, i - 1)>> \o SplitLines(SubSeq(s, i + 1, Len(s)))

\* sep.join(parts); parts is evaluated once and then walked by index
RECURSIVE JoinFrom(_, _, _)
JoinFrom(parts, sep, i) ==
    IF i > Len(parts) THEN <<>>
    ELSE IF i = Len(parts) THEN parts[i]
    ELSE parts[i] \o sep \o JoinFrom(parts, sep, i + 1)

JoinWith(parts, sep) == CHOOSE r \in {JoinFrom(p, sep, 1) : p \in {parts}} : TRUE

Join(lines) == JoinWith(lines, <<"\n">>)

\* [ln.strip() for ln in text.splitlines() if ln.strip()]
RECURSIVE StripEach(_)
StripEach(lines) ==
    IF lines = <<>> THEN <<>>
    ELSE LET ln == Strip(Head(lines))
         IN (IF ln = <<>> THEN <<>> ELSE <<ln>>) \o StripEach(Tail(lines))

NonBlankLines(text) == StripEach(SplitLines(text))

Lower(c) ==
    CASE c = "L" -> "l"
      [] c = "C" -> "c"
      [] c = "A" -> "a"
      [] OTHER -> c
LowerAll(s) == [i \in DOMAIN s |-> Lower(s[i])]

IsDigitChar(c) == c \in {"0", "1", "2", "3", "4", "5", "6", "7", "8", "9"}
\* str.isdigit: non-empty and all digits
IsDigit(s) == s # <<>> /\ \A i \in DOMAIN s : IsDigitChar(s[i])

\* ---------------------------------------------------------------------
\* What the three fetch helpers can return (main.py:94-138)
\* ---------------------------------------------------------------------
Prices == {50000}
TickerDict(p, v) ==
    [t |-> "dict", price |-> F(p), volume |-> F(v), high |-> F(0), low |-> F(0), pct |-> F(0)]
Candle(o, h, l, c, v) ==
    [open |-> F(o), high |-> F(h), low |-> F(l), close |-> F(c), volume |-> F(v)]

\* fetch_ticker: the dict of floats, or the exception it caught
fetch_ticker == {Exc} \cup {TickerDict(p, 12) : p \in Prices}
\* fetch_candles: the list of candles (possibly empty), or the exception
fetch_candles == {Exc, List(<<>>), List(<<Candle(7, 12, 0, 7, 12)>>)}
\* fetch_oi: a float, or None for a non-200 answer or an exception
fetch_oi == {None, F(7)}

\* ---------------------------------------------------------------------
\* The persisted markers (main.py:38-39, 74-89)
\* ---------------------------------------------------------------------
NoFile == [k |-> "nofile"]
Junk == [k |-> "junk"]
Stamp(ts) == [k |-> "int", ts |-> ts]

\* time.time() in ticks; int(time.time()) in whole seconds
IntTime(t) == t \div TicksPerSec

\* variants of the gate used to test the properties below
RecentOffByOne(file, t) ==
    /\ file.k = "int"
    /\ t - file.ts * TicksPerSec < (MSG_COOLDOWN - 1) * TicksPerSec
RecentNever(file, t) == FALSE
RecentInclusive(file, t) ==
    /\ file.k = "int"
    /\ t - file.ts * TicksPerSec <= MSG_COOLDOWN * TicksPerSec

\* variant: the age of the marker is taken with the wrong sign
RecentReversed(file, t) ==
    /\ file.k = "int"
    /\ file.ts * TicksPerSec - t < MSG_COOLDOWN * TicksPerSec

\* variant: a marker that cannot be read counts as a recent send
RecentFailsClosed(file, t) ==
    \/ file.k = "junk"
    \/ /\ file.k = "int"
       /\ t - file.ts * TicksPerSec < MSG_COOLDOWN * TicksPerSec

\* _recent_message_sent: the file exists, holds an integer, and
\* time.time() - ts < MSG_COOLDOWN; anything else (no file, int() raising) is False
_recent_message_sent(file, t) ==
    /\ file.k = "int"
    /\ t - file.ts * TicksPerSec < MSG_COOLDOWN * TicksPerSec

\* how open(LAST_MSG_PATH, "w") and the write can end: the timestamp is written;
\* open raises and the file is as it was; or open has emptied (or created) the
\* file and the write raises
WriteOutcomes == {"written", "refused", "emptied"}

\* _mark_message_sent: write str(int(time.time())); a failing write is swallowed
_mark_message_sent(file, t, writable) ==
    CASE writable = "written" -> Stamp(IntTime(t))
      [] writable = "refused" -> file
      [] OTHER                -> Junk

\* ---------------------------------------------------------------------
\* Aggregation of one gather (main.py:307-348)
\* ---------------------------------------------------------------------
SymIndex(s) == CHOOSE i \in DOMAIN SYMBOLS : SYMBOLS[i] = s
SymSet == Range(SYMBOLS)

Placeholder == [t |-> "dict", price |-> None, volume |-> None, oi |-> None]

\* results order: tick0, cand0, oi0, tick1, cand1, oi1, ...
TickRes(results, i) == results[(i - 1) * 3 + 1]
CandRes(results, i) == results[(i - 1) * 3 + 2]
OiRes(results, i) == results[(i - 1) * 3 + 3]

\* variant: a symbol without open interest is skipped altogether
MarketEntrySkipsOnOi(old, tick_res, oi_res) ==
    IF IsNone(oi_res) THEN old
    ELSE [t |-> "dict", price |-> IF IsException(tick_res) THEN old.price ELSE tick_res.price,
          volume |-> IF IsException(tick_res) THEN old.volume ELSE tick_res.volume,
          oi |-> oi_res]

\* the entry of one symbol: a failed ticker leaves price and volume as they
\* were (the placeholder), an exception for oi leaves oi as it was
MarketEntry(old, tick_res, oi_res) ==
    [t |-> "dict",
     price |-> IF IsException(tick_res) \/ IsNone(tick_res) THEN old.price ELSE tick_res.price,
     volume |-> IF IsException(tick_res) \/ IsNone(tick_res) THEN old.volume ELSE tick_res.volume,
     oi |-> IF IsException(oi_res) THEN old.oi ELSE oi_res]

CandleEntry(cand_res) ==
    IF IsException(cand_res) \/ IsNone(cand_res) THEN <<>> ELSE cand_res.v

\* variant: only the symbols whose ticker arrived get an entry
AggregateFetchedOnly(mm, res) ==
    [s \in {x \in SymSet : ~IsException(TickRes(res, SymIndex(x)))} |->
        MarketEntry(mm[s], TickRes(res, SymIndex(s)), OiRes(res, SymIndex(s)))]

AggregateMarket(mm, res) ==
    [s \in SymSet |-> MarketEntry(mm[s], TickRes(res, SymIndex(s)), OiRes(res, SymIndex(s)))]

AggregateCandles(res) ==
    [s \in SymSet |-> CandleEntry(CandRes(res, SymIndex(s)))]

\* dict.get(s): None when the key is absent
Get(map, s) == IF s \in DOMAIN map THEN map[s] ELSE None
HasPrice(d) == ~IsNone(d) /\ ~IsNone(d.price)

\* ---------------------------------------------------------------------
\* openai_analyze (main.py:143-191)
\* ---------------------------------------------------------------------
SpotLine(market_map, s) ==
    LET d == Get(market_map, s)
    IN IF HasPrice(d)
       THEN <<s, ": price=", PyStr(d.price), " vol24h=", PyStr(d.volume), " OI=", PyStr(d.oi)>>
       ELSE <<s, ": DATA_MISSING">>

CandleText(c) ==
    <<"[", PyStr(c.open), ",", PyStr(c.high), ",", PyStr(c.low), ",", PyStr(c.close), "]">>

\* variant: the candle list is printed whatever its length
CandleLineRaw(candle_map, s) ==
    LET candles == IF s \in DOMAIN candle_map THEN candle_map[s] ELSE <<>>
    IN <<s, " last 10 candles (OHLC): ">>
       \o JoinWith([i \in DOMAIN candles |-> CandleText(candles[i])], <<", ">>)

CandleLine(candle_map, s) ==
    LET candles == IF s \in DOMAIN candle_map THEN candle_map[s] ELSE <<>>
    IN IF candles # <<>>
       THEN LET last10 == Last(candles, PROMPT_CANDLES)
            IN <<s, " last 10 candles (OHLC): ">>
               \o JoinWith([i \in DOMAIN last10 |-> CandleText(last10[i])], <<", ">>)
       ELSE <<s, " last 10 candles (OHLC): ", "DATA_MISSING">>

BuildPrompt(market_map, candle_map) ==
    Join(<< <<"You are a concise crypto technical analyst.">>,
            <<"Given the following spot summary and recent candlestick OHLC data for BTCUSDT, ETHUSDT, and SOLUSDT,">>,
            <<"identify common chart patterns, state bias (bullish/bearish/neutral),">>,
            <<"and suggest possible buy/sell signals in one short paragraph.">>,
            <<>>,
            <<"Spot summary (DATA_MISSING means that data fetch failed):">>,
            Join([i \in DOMAIN SYMBOLS |-> SpotLine(market_map, SYMBOLS[i])]),
            <<>> >>
         \o [i \in DOMAIN SYMBOLS |-> CandleLine(candle_map, SYMBOLS[i])])

\* the summary kept from the service's answer: at most SUMMARY_LINES lines
Summary(content) ==
    LET text == Strip(content)
        lines_out == NonBlankLines(text)
    IN IF Len(lines_out) > SUMMARY_LINES THEN Join(Prefix(lines_out, SUMMARY_LINES)) ELSE text

\* resp is the service's answer: Exc when the call raised, else Text(content)
openai_analyze(has_client, resp) ==
    IF ~has_client THEN None
    ELSE IF IsException(resp) THEN None
    ELSE Text(Summary(resp.v))

\* ---------------------------------------------------------------------
\* _clean_analysis_text (main.py:196-215)
\* ---------------------------------------------------------------------
LAST10 == <<"l", "a", "s", "t", " ", "1", "0", " ", "c", "a", "n", "d", "l", "e", "s">>

StartsWith(s, p) == Len(s) >= Len(p) /\ SubSeq(s, 1, Len(p)) = p

\* the test that drops a line: a "Last 10 Candles" heading or a numbered line
IsCandleDump(ln) ==
    \/ StartsWith(LowerAll(ln), LAST10)
    \/ IsDigit(LStrip(Prefix(ln, 2)))

Shorten(ln) ==
    IF Len(ln) > CLEAN_LIMIT THEN RStrip(Prefix(ln, CLEAN_KEEP)) \o <<"...">> ELSE ln

\* variant: a missing analysis is rendered as a text
CleanNoneAsText(text, max_lines) ==
    IF IsNone(text) THEN <<"n", "/", "a">>
    ELSE Join(Prefix(NonBlankLines(text.v), max_lines))

_clean_analysis_text(text, max_lines) ==
    IF IsNone(text) \/ text.v = <<>> THEN <<>>
    ELSE LET lines == NonBlankLines(text.v)
             filtered0 == SelectSeq(lines, LAMBDA ln : ~IsCandleDump(ln))
             filtered == IF filtered0 = <<>> THEN lines ELSE filtered0
             short == [i \in DOMAIN filtered |-> Shorten(filtered[i])]
         IN Join(IF max_lines >= 1 THEN Prefix(short, max_lines) ELSE Prefix(short, 1))

\* ---------------------------------------------------------------------
\* The snapshot message (main.py:225-236)
\* ---------------------------------------------------------------------
HeaderLine(market_map, s) ==
    LET d == Get(market_map, s)
    IN IF HasPrice(d)
       THEN <<"*", s, "*: ", PyStr(d.price), " (24hVol=", PyStr(d.volume), ", OI=", PyStr(d.oi), ")">>
       ELSE <<"*", s, "*: ", "DATA_MISSING">>

HeaderLines(market_map, symbols) ==
    [i \in DOMAIN symbols |-> HeaderLine(market_map, symbols[i])]

ANALYSIS_TITLE == "Analysis:"

SnapshotText(market_map, analysis_raw) ==
    LET analysis_clean == _clean_analysis_text(analysis_raw, SNAP_MAX_LINES)
    IN <<"*Snapshot (UTC ", "HH:MM", ")*", "\n">>
       \o Join(HeaderLines(market_map, SYMBOLS))
       \o (IF analysis_clean # <<>>
           THEN <<"\n", "\n", ANALYSIS_TITLE, "\n">> \o analysis_clean
           ELSE <<>>)

STARTUP_TEXT == <<"*Bot online - Binance only*">>

\* send_startup_test's message (main.py:278-287)
StartupTestText(market_map, analysis) ==
    <<"*Startup test - forced snapshot*", "\n">>
    \o Join(HeaderLines(market_map, TEST_SYMBOLS))
    \o (IF ~IsNone(analysis) /\ analysis.v # <<>>
        THEN <<"\n", "\n", ANALYSIS_TITLE, "\n">> \o _clean_analysis_text(analysis, TEST_MAX_LINES)
        ELSE <<>>)

\* ---------------------------------------------------------------------
\* State
\* ---------------------------------------------------------------------
VARIABLES
    creds,        \* TELEGRAM_BOT_TOKEN and TELEGRAM_CHAT_ID are both set
    client,       \* the OpenAI client was built
    TEST_MODE,    \* TEST_MODE=1
    now,          \* time.time(), in ticks
    lastMsg,      \* the file LAST_MSG_PATH
    startupFlag,  \* the file STARTUP_FLAG_PATH exists
    pc,           \* where the process is suspended
    start,        \* periodic_task: start of the current cycle
    wake,         \* the time the pending asyncio.sleep ends
    results,      \* periodic_task: what the gather returned
    market_map,   \* the frame: symbol -> price, volume, oi
    candle_map,   \* the frame: symbol -> candles
    prompt,       \* the prompt of the last analysis request
    analysis,     \* the last value openai_analyze returned
    msg,          \* the text of the last _really_send_telegram call
    att,          \* history: the last call of send_snapshot_message
    prev_ok,      \* history: every fetch of the cycle before this one succeeded
    peer,         \* a second instance of the process, in its send_snapshot_message
    announced     \* history: how the last startup announcement ended

config == <<creds, client, TEST_MODE>>
files == <<lastMsg, startupFlag>>
locals == <<pc, start, wake, results, market_map, candle_map, prompt, analysis, prev_ok>>
vars == <<creds, client, TEST_MODE, now, lastMsg, startupFlag, pc, start, wake,
          results, market_map, candle_map, prompt, analysis, msg, att, prev_ok,
          peer, announced>>

Max(a, b) == IF a > b THEN a ELSE b

\* the process is suspended in an await, or is not running
Waiting == {"boot", "exit", "startup_send", "test_sleep", "test_fetch", "test_analyze",
            "test_send", "gather", "analyze", "snap_send", "sleep"}

\* ---------------------------------------------------------------------
\* Inputs
\* ---------------------------------------------------------------------
Triples == fetch_ticker \X fetch_candles \X fetch_oi
TripleOk == <<TickerDict(50000, 12), List(<<Candle(7, 12, 0, 7, 12)>>), F(7)>>
TripleFail == <<Exc, Exc, None>>
TripleScenario == <<TickerDict(50000, 12), List(<<>>), None>>

\* every combination of outcomes of the 3 x N fetches of a gather
AllPending == [i \in 1..(3 * Len(SYMBOLS)) |-> Pending]
Outstanding(res) == {i \in DOMAIN res : res[i] = Pending}

\* every fetch returned data: a ticker, at least one candle, an open interest
AllFetched(res) ==
    /\ res # <<>>
    /\ \A i \in DOMAIN res :
          /\ res[i].t \notin {"pending", "exc", "None"}
          /\ res[i].t = "list" => res[i].v # <<>>

AllResults == {a \o b \o c : a \in Triples, b \in Triples, c \in Triples}
\* a few whole-cycle outcomes, for the runs that explore the clock
SomeResults == {TripleScenario \o TripleFail \o TripleOk}
SomeTestResults == {TripleOk \o TripleFail}

\* the analysis service: the call raises, or answers with a text
Answers == {Exc, Text(<<" ", "u", "p", "\n">>)}

\* ---------------------------------------------------------------------
\* Init: a process about to start, in a fresh or a used environment
\* ---------------------------------------------------------------------
InitLocals ==
    /\ pc = "boot"
    /\ start = 0
    /\ wake = 0
    /\ results = <<>>
    /\ market_map = <<>>
    /\ candle_map = <<>>
    /\ prompt = <<>>
    /\ analysis = None
    /\ msg = <<>>
    /\ prev_ok = FALSE

\* att describes the last call of send_snapshot_message: when it was made (at),
\* whether it reached _really_send_telegram (called), whether that returned
\* True (ok), whether the marker was then written (marked), and how the call
\* before it ended (prev); seq flips at every call.
\* peer describes the other instance: whether it is idle or has a delivery in
\* flight (pc), when its last cooldown test passed (at), and whether its last
\* delivery returned True (ok).
NoPeer == [pc |-> "idle", at |-> 0, ok |-> FALSE]

NoAttempt == [seq |-> 0, at |-> 0, called |-> FALSE, ok |-> FALSE, marked |-> FALSE,
              prev |-> "none"]

Outcome(a) ==
    IF a.seq = 0 /\ a.prev = "none" THEN "none"
    ELSE IF ~a.called THEN "skipped"
    ELSE IF a.ok THEN "sent" ELSE "failed"

NewAttempt(a, t, called) ==
    [seq |-> 1 - a.seq, at |-> t, called |-> called, ok |-> FALSE, marked |-> FALSE,
     prev |-> Outcome(a)]

Init ==
    /\ creds \in BOOLEAN
    /\ client \in BOOLEAN
    /\ TEST_MODE \in BOOLEAN
    /\ now = 0
    /\ lastMsg \in {NoFile, Junk}
    /\ startupFlag = FALSE
    /\ att = NoAttempt
    /\ peer = NoPeer
    /\ announced = "no"
    /\ InitLocals

\* ---------------------------------------------------------------------
\* periodic_task, up to each await (main.py:293-363)
\* ---------------------------------------------------------------------
\* variant: the frame of the cycle before is kept and written over
LoopTopKeepsFrame ==
    /\ start' = now
    /\ market_map' = IF market_map = <<>> THEN [s \in SymSet |-> Placeholder] ELSE market_map
    /\ candle_map' = IF candle_map = <<>> THEN [s \in SymSet |-> <<>>] ELSE candle_map
    /\ results' = AllPending
    /\ analysis' = None
    /\ prev_ok' = AllFetched(results)
    /\ pc' = "gather"
    /\ UNCHANGED <<wake, prompt>>

\* top of the while loop, up to the await of the gather (main.py:304-318).
\* results and analysis are assigned in every iteration before they are read;
\* their values of the iteration before are dropped here. All the fetches are
\* handed to one gather, which holds a slot per task: each is outstanding.
LoopTop ==
    /\ start' = now
    /\ market_map' = [s \in SymSet |-> Placeholder]
    /\ candle_map' = [s \in SymSet |-> <<>>]
    /\ results' = AllPending
    /\ analysis' = None
    /\ prev_ok' = AllFetched(results)
    /\ pc' = "gather"
    /\ UNCHANGED <<wake, prompt>>

\* after send_startup_once (main.py:298-304)
AfterStartup ==
    IF TEST_MODE
    THEN /\ pc' = "test_sleep"
         /\ wake' = now + TEST_SLEEP * TicksPerSec
         /\ UNCHANGED <<prev_ok, start, results, market_map, candle_map, prompt, analysis>>
    ELSE LoopTop

\* variant: the sleep is the whole interval, whatever the cycle took
EndCycleFixed ==
    /\ pc' = "sleep"
    /\ wake' = now + POLL_INTERVAL * TicksPerSec

\* the end of a cycle: sleep max(0, POLL_INTERVAL - elapsed) (main.py:361-363)
EndCycle ==
    /\ pc' = "sleep"
    /\ wake' = now + Max(0, POLL_INTERVAL * TicksPerSec - (now - start))

\* variant: main starts periodic_task without looking at the credentials
MainNoCheck ==
    /\ pc = "boot"
    /\ IF startupFlag
       THEN AfterStartup /\ announced' = "skipped" /\ UNCHANGED msg
       ELSE /\ pc' = "startup_send"
            /\ msg' = STARTUP_TEXT
            /\ UNCHANGED <<prev_ok, start, wake, results, market_map, candle_map, prompt, analysis,
                           announced>>
    /\ UNCHANGED <<peer, config, now, files, att>>

\* main, and periodic_task up to its first await (main.py:368-376, 293-296, 246-250)
Main ==
    /\ pc = "boot"
    /\ IF ~creds
       THEN /\ pc' = "exit"
            /\ UNCHANGED <<prev_ok, start, wake, results, market_map, candle_map, prompt, analysis,
                           msg, announced>>
       ELSE IF startupFlag
       THEN AfterStartup /\ announced' = "skipped" /\ UNCHANGED msg
       ELSE /\ pc' = "startup_send"
            /\ msg' = STARTUP_TEXT
            /\ UNCHANGED <<prev_ok, start, wake, results, market_map, candle_map, prompt, analysis,
                           announced>>
    /\ UNCHANGED <<peer, config, now, files, att>>

\* variant: the flag file is written whatever the send returned
FlagAlways(flag, ok, writable) == flag \/ writable

\* send_startup_once: the flag file is written after a send that returned True;
\* a failing write is swallowed (main.py:251-256)
FlagAfterSend(flag, ok, writable) == flag \/ (ok /\ writable)

\* variant: a startup announcement that fails ends the process
StartupSendRaises ==
    /\ pc = "startup_send"
    /\ \E ok \in BOOLEAN, writable \in BOOLEAN :
          /\ startupFlag' = FlagAfterSend(startupFlag, ok, writable)
          /\ announced' = IF ok THEN "ok" ELSE "failed"
          /\ IF ok THEN AfterStartup
             ELSE /\ pc' = "exit"
                  /\ UNCHANGED <<prev_ok, start, wake, results, market_map, candle_map,
                                 prompt, analysis>>
    /\ msg' = <<>>
    /\ UNCHANGED <<peer, config, now, lastMsg, att>>

\* send_startup_once after the send returned (main.py:250-256)
StartupSendReturn ==
    /\ pc = "startup_send"
    /\ \E ok \in BOOLEAN, writable \in BOOLEAN :
          /\ startupFlag' = FlagAfterSend(startupFlag, ok, writable)
          /\ announced' = IF ok THEN "ok" ELSE "failed"
    /\ AfterStartup
    /\ msg' = <<>>
    /\ UNCHANGED <<peer, config, now, lastMsg, att>>

\* variant: the forced snapshot is skipped while the cooldown marker is fresh
TestWakeGated ==
    /\ pc = "test_sleep"
    /\ now >= wake
    /\ IF _recent_message_sent(lastMsg, now)
       THEN LoopTop
       ELSE pc' = "test_fetch" /\ UNCHANGED <<prev_ok, start, results, market_map, candle_map,
                                               prompt, analysis>>
    /\ UNCHANGED <<peer, config, now, files, wake, msg, att, announced>>

\* asyncio.sleep(1) is over; send_startup_test starts fetching (main.py:301-264)
TestWake ==
    /\ pc = "test_sleep"
    /\ now >= wake
    /\ pc' = "test_fetch"
    /\ UNCHANGED <<prev_ok, peer, config, now, files, start, wake, results, market_map, candle_map,
                   prompt, analysis, msg, att, announced>>

TestEntry(t, oi) ==
    IF IsException(t) THEN Placeholder
    ELSE [t |-> "dict", price |-> t.price, volume |-> t.volume, high |-> t.high, low |-> t.low,
          pct |-> t.pct, oi |-> oi]

\* send_startup_test: the six fetches are in, up to the next await (main.py:263-288)
TestFetchReturn(R) ==
    /\ pc = "test_fetch"
    /\ \E res \in R :
          /\ market_map' = [s \in Range(TEST_SYMBOLS) |->
                              TestEntry(TickRes(res, SymIndex(s)), OiRes(res, SymIndex(s)))]
          /\ candle_map' = [s \in Range(TEST_SYMBOLS) |-> CandleEntry(CandRes(res, SymIndex(s)))]
    /\ IF client
       THEN /\ prompt' = BuildPrompt(market_map', candle_map')
            /\ pc' = "test_analyze"
            /\ UNCHANGED <<analysis, msg>>
       ELSE /\ analysis' = openai_analyze(client, Exc)
            /\ msg' = StartupTestText(market_map', analysis')
            /\ pc' = "test_send"
            /\ UNCHANGED prompt
    /\ UNCHANGED <<prev_ok, peer, config, now, files, start, wake, results, att, announced>>

TestAnalyzeReturn ==
    /\ pc = "test_analyze"
    /\ \E resp \in Answers : analysis' = openai_analyze(client, resp)
    /\ msg' = StartupTestText(market_map, analysis')
    /\ prompt' = <<>>
    /\ pc' = "test_send"
    /\ UNCHANGED <<prev_ok, peer, config, now, files, start, wake, results, market_map,
                   candle_map, att, announced>>

\* the forced snapshot's send returned; its result is not used (main.py:288)
TestSendReturn ==
    /\ pc = "test_send"
    /\ LoopTop
    /\ msg' = <<>>
    /\ UNCHANGED <<peer, config, now, files, att, announced>>

\* send_snapshot_message up to its await (main.py:220-238)
SnapshotGate(mm, an) ==
    IF _recent_message_sent(lastMsg, now)
    THEN /\ att' = NewAttempt(att, now, FALSE)
         /\ EndCycle
         /\ UNCHANGED msg
    ELSE /\ att' = NewAttempt(att, now, TRUE)
         /\ msg' = SnapshotText(mm, an)
         /\ pc' = "snap_send"
         /\ UNCHANGED wake

\* after the gather: aggregate, then openai_analyze up to its await (main.py:320-356)
AfterGather(res) ==
    /\ market_map' = AggregateMarket(market_map, res)
    /\ candle_map' = AggregateCandles(res)
    /\ IF client
       THEN /\ prompt' = BuildPrompt(market_map', candle_map')
            /\ pc' = "analyze"
            /\ UNCHANGED <<wake, analysis, msg, att>>
       ELSE /\ analysis' = openai_analyze(client, Exc)
            /\ SnapshotGate(market_map', analysis')
            /\ UNCHANGED prompt
    /\ UNCHANGED <<prev_ok, peer, config, now, files, start, announced>>

\* every fetch of the cycle completed and the gather returned (main.py:318-356)
GatherReturn(R) ==
    /\ pc = "gather"
    /\ results = AllPending
    /\ \E res \in R :
          /\ results' = res
          /\ AfterGather(res)

\* what the task in slot i of the gather can return
FetchOutcomes(i) ==
    CASE i % 3 = 1 -> fetch_ticker
      [] i % 3 = 2 -> fetch_candles
      [] OTHER     -> fetch_oi

\* one fetch of the cycle completed; the loop stays suspended in the gather
\* (main.py:311-318)
FetchReturn ==
    /\ pc = "gather"
    /\ \E i \in Outstanding(results) : \E r \in FetchOutcomes(i) :
          results' = [results EXCEPT ![i] = r]
    /\ UNCHANGED <<prev_ok, peer, config, now, files, pc, start, wake, market_map, candle_map, prompt,
                   analysis, msg, att, announced>>

\* variant: the loop goes on as soon as one fetch has completed, taking the
\* outstanding ones as failed
GatherResumeEarly ==
    /\ pc = "gather"
    /\ Outstanding(results) # DOMAIN results
    /\ AfterGather([i \in DOMAIN results |->
                      IF results[i] = Pending THEN Exc ELSE results[i]])
    /\ UNCHANGED results

\* the gather returns once no task is outstanding (main.py:318)
GatherResume ==
    /\ pc = "gather"
    /\ Outstanding(results) = {}
    /\ AfterGather(results)
    /\ UNCHANGED results

\* the analysis call returned; then send_snapshot_message (main.py:176-191, 356-359)
AnalyzeReturn ==
    /\ pc = "analyze"
    /\ \E resp \in Answers : analysis' = openai_analyze(client, resp)
    /\ SnapshotGate(market_map, analysis')
    /\ prompt' = <<>>
    /\ UNCHANGED <<prev_ok, peer, config, now, files, start, results, market_map,
                   candle_map, announced>>

\* variant: the marker is written whatever the send returned
MarkAlways(file, t, sent, writable) == _mark_message_sent(file, t, writable)

\* send_snapshot_message: "if sent: _mark_message_sent()" (main.py:239-240)
MarkAfterSend(file, t, sent, writable) ==
    IF sent THEN _mark_message_sent(file, t, writable) ELSE file

\* variant: a failed delivery ends periodic_task
SnapSendRaises ==
    /\ pc = "snap_send"
    /\ \E sent \in BOOLEAN, writable \in WriteOutcomes :
          /\ lastMsg' = MarkAfterSend(lastMsg, now, sent, writable)
          /\ att' = [att EXCEPT !.ok = sent, !.marked = sent /\ writable = "written"]
          /\ IF sent THEN EndCycle ELSE pc' = "exit" /\ wake' = wake
    /\ msg' = <<>>
    /\ UNCHANGED <<prev_ok, peer, config, now, startupFlag, start, results, market_map, candle_map,
                   prompt, analysis, announced>>

\* _really_send_telegram returned to send_snapshot_message (main.py:238-241, 361-363)
SnapSendReturn ==
    /\ pc = "snap_send"
    /\ \E sent \in BOOLEAN, writable \in WriteOutcomes :
          /\ lastMsg' = MarkAfterSend(lastMsg, now, sent, writable)
          /\ att' = [att EXCEPT !.ok = sent, !.marked = sent /\ writable = "written"]
    /\ EndCycle
    /\ msg' = <<>>
    /\ UNCHANGED <<prev_ok, peer, config, now, startupFlag, start, results, market_map, candle_map,
                   prompt, analysis, announced>>

\* variant: passing the cooldown test writes the marker at once
PeerGateReserves ==
    /\ peer.pc = "idle"
    /\ ~_recent_message_sent(lastMsg, now)
    /\ peer' = [pc |-> "sending", at |-> now, ok |-> FALSE]
    /\ lastMsg' = _mark_message_sent(lastMsg, now, "written")
    /\ UNCHANGED <<config, now, startupFlag, locals, msg, att, announced>>

\* the other instance's send_snapshot_message up to its await: the cooldown
\* test on the shared marker passed (main.py:220-238)
PeerGate ==
    /\ peer.pc = "idle"
    /\ ~_recent_message_sent(lastMsg, now)
    /\ peer' = [pc |-> "sending", at |-> now, ok |-> FALSE]
    /\ UNCHANGED <<config, now, files, locals, msg, att, announced>>

\* the other instance's delivery returned (main.py:238-241)
PeerSendReturn ==
    /\ peer.pc = "sending"
    /\ \E sent \in BOOLEAN, writable \in WriteOutcomes :
          /\ lastMsg' = MarkAfterSend(lastMsg, now, sent, writable)
          /\ peer' = [peer EXCEPT !.pc = "idle", !.ok = sent]
    /\ UNCHANGED <<config, now, startupFlag, locals, msg, att, announced>>

\* the sleep at the end of a cycle is over (main.py:363, 304)
Wake ==
    /\ pc = "sleep"
    /\ now >= wake
    /\ LoopTop
    /\ UNCHANGED <<peer, config, now, files, msg, att, announced>>

\* time passes while the process is suspended, up to the modelled horizon
Advance(limit) ==
    /\ now < limit
    /\ pc \in Waiting
    /\ now' = now + 1
    /\ UNCHANGED <<peer, config, files, locals, msg, att, announced>>

Tick == Advance(MaxNow)

\* the process is stopped and started again; the files stay
Restart ==
    /\ pc # "boot"
    /\ pc' = "boot"
    /\ start' = 0
    /\ wake' = 0
    /\ results' = <<>>
    /\ market_map' = <<>>
    /\ candle_map' = <<>>
    /\ prompt' = <<>>
    /\ analysis' = None
    /\ msg' = <<>>
    /\ prev_ok' = FALSE
    /\ UNCHANGED <<peer, config, now, files, att, announced>>

\* the process sleeps exactly as long as it asked to
Elapse ==
    /\ pc \in {"sleep", "test_sleep"}
    /\ now < wake
    /\ wake <= FrameMaxNow
    /\ now' = wake
    /\ UNCHANGED <<peer, config, files, locals, msg, att, announced>>

Next ==
    \/ Main
    \/ StartupSendReturn
    \/ TestWake
    \/ TestFetchReturn(SomeTestResults)
    \/ TestAnalyzeReturn
    \/ TestSendReturn
    \/ GatherReturn(SomeResults)
    \/ AnalyzeReturn
    \/ SnapSendReturn
    \/ Wake
    \/ Tick
    \/ Restart

Spec == Init /\ [][Next]_vars

\* The same program, run over every combination of fetch outcomes; the clock
\* only moves through the sleeps.
InitFrame ==
    /\ creds = TRUE
    /\ client \in BOOLEAN
    /\ TEST_MODE = FALSE
    /\ now = 0
    /\ lastMsg = NoFile
    /\ startupFlag = TRUE
    /\ att = NoAttempt
    /\ peer = NoPeer
    /\ announced = "no"
    /\ InitLocals

NextFrame ==
    \/ Main
    \/ GatherReturn(AllResults)
    \/ AnalyzeReturn
    \/ SnapSendReturn
    \/ Wake
    \/ Elapse

SpecFrame == InitFrame /\ [][NextFrame]_vars

\* The same, with the fetches of a cycle completing one at a time, in any order.
NextGather ==
    \/ Main
    \/ FetchReturn
    \/ GatherResume
    \/ AnalyzeReturn
    \/ SnapSendReturn
    \/ Wake
    \/ Elapse

SpecGather == InitFrame /\ [][NextGather]_vars

\* Two instances of the process on one marker file: the one modelled in full,
\* and another that takes snapshot attempts of its own at any time.
NextTwo ==
    \/ Main
    \/ GatherReturn(SomeResults)
    \/ AnalyzeReturn
    \/ SnapSendReturn
    \/ Wake
    \/ Tick
    \/ PeerGate
    \/ PeerSendReturn

SpecTwo == InitFrame /\ [][NextTwo]_vars

\* The program left alone (nobody stops it), with every awaited call returning
\* and the clock advancing.
LiveResults == SomeResults \cup {TripleFail \o TripleFail \o TripleFail,
                                 TripleOk \o TripleOk \o TripleOk}

Proc ==
    \/ Main
    \/ StartupSendReturn
    \/ TestWake
    \/ TestFetchReturn(SomeTestResults)
    \/ TestAnalyzeReturn
    \/ TestSendReturn
    \/ GatherReturn(LiveResults)
    \/ AnalyzeReturn
    \/ SnapSendReturn
    \/ Wake

TickLive == Advance(LiveMaxNow)

NextLive == Proc \/ TickLive

SpecLive == Init /\ [][NextLive]_vars /\ WF_vars(Proc) /\ WF_vars(TickLive)

\* _clean_analysis_text on its own: the analysis text is any text of up to
\* MaxCleanLines lines, each one of a few kinds of line, and max_lines is the
\* one of either call (main.py:233, 287).
CleanLineSet ==
    { <<"u", "p">>,
      <<" ", "o", "k", " ">>,
      <<" ">>,
      <<"1", ".", " ", "x">>,
      <<"1", "2", " ", "x">>,
      <<"7", "x">>,
      <<"L", "a", "s", "t", " ", "1", "0", " ", "C", "a", "n", "d", "l", "e", "s", ":">>,
      [i \in 1..(CLEAN_LIMIT + 1) |-> "x"] }

RECURSIVE TextsOf(_)
TextsOf(n) ==
    IF n = 0 THEN {<<>>}
    ELSE LET shorter == TextsOf(n - 1)
         IN shorter \cup {Join(<<t, ln>>) : t \in shorter, ln \in CleanLineSet}

CleanInputs == {None} \cup {Text(t) : t \in TextsOf(MaxCleanLines)}

InitClean ==
    /\ creds = TRUE
    /\ client = TRUE
    /\ TEST_MODE \in BOOLEAN
    /\ now = 0
    /\ lastMsg = NoFile
    /\ startupFlag = TRUE
    /\ att = NoAttempt
    /\ peer = NoPeer
    /\ announced = "no"
    /\ pc = "clean_in"
    /\ start = 0
    /\ wake = 0
    /\ results = <<>>
    /\ market_map = <<>>
    /\ candle_map = <<>>
    /\ prompt = <<>>
    /\ analysis \in CleanInputs
    /\ msg = <<>>
    /\ prev_ok = FALSE

\* the call _clean_analysis_text(analysis, max_lines=5), or max_lines=6 in the
\* forced test (main.py:233, 287)
CleanApply ==
    /\ pc = "clean_in"
    /\ msg' = _clean_analysis_text(analysis, IF TEST_MODE THEN TEST_MAX_LINES ELSE SNAP_MAX_LINES)
    /\ pc' = "clean_out"
    /\ UNCHANGED <<peer, config, now, files, start, wake, results, market_map, candle_map,
                   prompt, analysis, att, prev_ok, announced>>

SpecClean == InitClean /\ [][CleanApply]_vars

\* One instance left alone over a horizon longer than the cooldown, every
\* awaited call returning and the clock advancing.
TickGate == Advance(GateMaxNow)

ProcGate ==
    \/ Main
    \/ GatherReturn(SomeResults)
    \/ AnalyzeReturn
    \/ SnapSendReturn
    \/ Wake

NextGate == ProcGate \/ TickGate

SpecGate == InitFrame /\ [][NextGate]_vars /\ WF_vars(ProcGate) /\ WF_vars(TickGate)

\* =====================================================================
\* Properties
\* =====================================================================
\* the marker records a send less than MSG_COOLDOWN before time t
InCooldown(file, t) ==
    /\ file.k = "int"
    /\ t - file.ts * TicksPerSec < MSG_COOLDOWN * TicksPerSec

\* this step contains a call of send_snapshot_message
Attempt == att'.seq # att.seq

\* C1, as stated: of two snapshot attempts less than MSG_COOLDOWN apart, the
\* first making a delivery call, the second makes none and leaves the marker.
\* Fails: the first delivery can fail (no marker is written), and the marker
\* holds int(time.time()), up to a second before the first attempt.
C1_Original ==
    [][(Attempt /\ att.called /\ now - att.at < MSG_COOLDOWN * TicksPerSec)
          => (~att'.called /\ lastMsg' = lastMsg)]_vars

\* C1, amended: when the attempt before was delivered successfully and recorded
\* in the marker, an attempt made less than MSG_COOLDOWN after the whole second
\* the marker holds makes no delivery call, leaves the marker unchanged and
\* goes on to the sleep of the cycle.
C1_Suppressed ==
    [][(Attempt /\ att.called /\ att.ok /\ att.marked /\ InCooldown(lastMsg, now))
          => (~att'.called /\ lastMsg' = lastMsg /\ pc' = "sleep")]_vars

\* an attempt was suppressed right after a delivered one
C1_Witness ==
    /\ pc = "sleep"
    /\ ~att.called
    /\ att.prev = "sent"
    /\ InCooldown(lastMsg, att.at)

\* C2: while a delivery call of the snapshot path is in flight, the marker
\* does not record a send less than MSG_COOLDOWN before the call: no snapshot
\* is sent inside the cooldown window of the last recorded send.  (A marker
\* that is absent or holds no integer records no send.)
C2_NoSendInCooldown ==
    pc = "snap_send" => (att.called /\ ~InCooldown(lastMsg, att.at))

\* a snapshot is being delivered although a marker exists: the window is over
C2_Witness ==
    /\ pc = "snap_send"
    /\ lastMsg.k = "int"
    /\ att.prev = "skipped"

\* C3, as stated: of two snapshot attempts more than MSG_COOLDOWN apart, the
\* first making a delivery call, the second makes one too.  Fails: the marker
\* holds the time _mark_message_sent ran, after the first delivery returned,
\* and the cooldown runs from there.
C3_Original ==
    [][(Attempt /\ att.called /\ now - att.at > MSG_COOLDOWN * TicksPerSec)
          => att'.called]_vars

\* C3, amended: after an attempt that made a delivery call, the next attempt
\* makes one too whenever at least MSG_COOLDOWN has passed since the time the
\* first wrote into the marker (or the first wrote no marker).
C3_BothDelivered ==
    [][(Attempt /\ att.called /\ (att.marked => ~InCooldown(lastMsg, now)))
          => (att'.called /\ pc' = "snap_send")]_vars

\* two attempts in a row both reached the delivery call, the first one marked
C3_Witness ==
    /\ pc = "snap_send"
    /\ att.called
    /\ att.prev = "sent"
    /\ lastMsg.k = "int"
    /\ att.at - lastMsg.ts * TicksPerSec >= MSG_COOLDOWN * TicksPerSec

\* C4: a delivery that fails does not stop the loop and leaves the marker as
\* it was; the marker changes only in the step in which a delivery returned
\* True; and the attempt after a failed one makes a delivery call again.
C4_FailureKeepsMarker ==
    [][/\ (pc = "snap_send" /\ pc' = "sleep" /\ ~att'.ok) => lastMsg' = lastMsg
       /\ (pc = "snap_send" /\ pc' # pc /\ pc' # "boot") => pc' = "sleep"
       /\ lastMsg' # lastMsg => (pc = "snap_send" /\ att'.ok)
       /\ (Attempt /\ att.called /\ ~att.ok) => att'.called]_vars

\* a delivery is being retried after a failed one
C4_Witness ==
    /\ pc = "snap_send"
    /\ att.prev = "failed"
    /\ lastMsg.k # "int"

\* C5: the startup flag is only ever set, and only in the step in which the
\* startup announcement returned True; a process start that finds the flag makes
\* no startup delivery call; once the flag is set no startup announcement is
\* sent any more, over any number of restarts.
C5_StartupOnce ==
    [][/\ startupFlag' # startupFlag
             => (startupFlag' /\ pc = "startup_send" /\ announced' = "ok")
       /\ startupFlag => (pc' # "startup_send" /\ announced' \in {announced, "skipped"})
       /\ (pc = "boot" /\ startupFlag /\ pc' # "boot")
             => (announced' = "skipped" /\ pc' \in {"exit", "gather", "test_sleep"})]_vars

\* a later process start found the flag and skipped the announcement
C5_Witness ==
    /\ startupFlag
    /\ announced = "skipped"
    /\ pc \in {"gather", "test_sleep"}

\* ---------------------------------------------------------------------
\* The frame and the texts built from it
\* ---------------------------------------------------------------------
\* the gather of the current cycle has returned
Gathered == results # <<>> /\ Outstanding(results) = {}
TickerFailed(i) == IsException(TickRes(results, i)) \/ IsNone(TickRes(results, i))
SymbolLine(text, i) ==
    LET lines == SplitLines(text)
    IN IF Len(lines) >= i + 1 THEN lines[i + 1] ELSE <<>>

\* C6: every symbol whose ticker fetch failed still has an entry in market_map,
\* with price and volume None, and the snapshot being sent has, at the
\* symbol's place in SYMBOLS, its line with the DATA_MISSING token.
C6_MissingKept ==
    Gathered =>
        \A i \in DOMAIN SYMBOLS :
            TickerFailed(i) =>
                /\ SYMBOLS[i] \in DOMAIN market_map
                /\ market_map[SYMBOLS[i]].price = None
                /\ market_map[SYMBOLS[i]].volume = None
                /\ pc = "snap_send"
                      => SymbolLine(msg, i) = <<"*", SYMBOLS[i], "*: ", "DATA_MISSING">>

\* a snapshot is being sent although the ticker of the second symbol failed
C6_Witness ==
    /\ pc = "snap_send"
    /\ Gathered
    /\ TickerFailed(2)
    /\ ~TickerFailed(1)

\* C7: when the open-interest fetch of a symbol returned None, the frame still
\* holds, for every symbol, the price and volume of that symbol's own ticker
\* result, the candles of its own candle result and its own open interest.
C7_OiIsolated ==
    Gathered =>
        \A x \in DOMAIN SYMBOLS :
            IsNone(OiRes(results, x)) =>
                \A i \in DOMAIN SYMBOLS :
                    LET s == SYMBOLS[i]
                        tick == TickRes(results, i)
                        cand == CandRes(results, i)
                    IN /\ market_map[s].price = (IF TickerFailed(i) THEN None ELSE tick.price)
                       /\ market_map[s].volume = (IF TickerFailed(i) THEN None ELSE tick.volume)
                       /\ candle_map[s] = (IF IsException(cand) THEN <<>> ELSE cand.v)
                       /\ market_map[s].oi = OiRes(results, i)

\* the first symbol has no open interest, but a ticker and candles; the second has all
C7_Witness ==
    /\ Gathered
    /\ IsNone(OiRes(results, 1))
    /\ ~TickerFailed(1)
    /\ candle_map[SYMBOLS[1]] # <<>>
    /\ ~IsNone(OiRes(results, 2))
    /\ ~TickerFailed(2)

HeaderOnly(text) ==
    /\ Len(SplitLines(text)) = 1 + Len(SYMBOLS)
    /\ ANALYSIS_TITLE \notin Range(text)

\* C8: when the analysis call of a cycle fails, send_snapshot_message is still
\* called in the same step and, unless the cooldown suppresses the snapshot, the
\* delivery call is made with a text of the header and one line per symbol and
\* no analysis section.
C8_SentWithoutAnalysis ==
    [][(pc = "analyze" /\ pc' \notin {"analyze", "boot"} /\ IsNone(analysis'))
          => /\ Attempt
             /\ ~InCooldown(lastMsg, now)
                   => (pc' = "snap_send" /\ att'.called /\ HeaderOnly(msg'))]_vars

\* the snapshot of a cycle whose analysis call failed is being sent
C8_Witness ==
    /\ pc = "snap_send"
    /\ client
    /\ IsNone(analysis)
    /\ HeaderOnly(msg)

\* C9: with no cause other than failed fetches, absent open interest, a failed
\* analysis call or a failed delivery, the loop never ends: every cycle reaches
\* its sleep, and every sleep that ends within the modelled time is followed by
\* the next cycle.
C9_LoopGoesOn ==
    /\ [](creds => pc # "exit")
    /\ (pc \in {"gather", "analyze", "snap_send"}) ~> (pc = "sleep")
    /\ (pc = "sleep" /\ wake <= LiveMaxNow) ~> (pc = "gather")

\* a cycle with a failed ticker, a failed analysis and a failed delivery reached its sleep
C9_Witness ==
    /\ pc = "sleep"
    /\ client
    /\ Gathered
    /\ TickerFailed(2)
    /\ IsNone(analysis)
    /\ att.called
    /\ ~att.ok

ScenarioAt(i) ==
    /\ Gathered
    /\ ~TickerFailed(i)
    /\ TickRes(results, i).price = F(50000)
    /\ CandRes(results, i) = List(<<>>)
    /\ IsNone(OiRes(results, i))

\* C10: for a symbol with ticker price 50000, an empty candle list and no open
\* interest, the snapshot line shows the price and "OI=None", and the line of
\* the prompt for its candles ends in DATA_MISSING.
C10_Scenario ==
    \A i \in DOMAIN SYMBOLS :
        ScenarioAt(i) =>
            /\ pc = "snap_send"
                  => SymbolLine(msg, i) = <<"*", SYMBOLS[i], "*: ", "50000.0", " (24hVol=",
                                            "12.0", ", OI=", "None", ")">>
            /\ pc = "analyze"
                  => SymbolLine(prompt, 9 + i)
                        = <<SYMBOLS[i], " last 10 candles (OHLC): ", "DATA_MISSING">>

\* the prompt for the scenario is out
C10_Witness ==
    /\ pc = "analyze"
    /\ ScenarioAt(1)

\* C11: with a messaging credential missing, main returns before periodic_task
\* is entered: the process is never anywhere but at its start or its end, no
\* delivery call, fetch or snapshot attempt is made, and neither file is written.
C11_RefusesToRun ==
    ~creds =>
        /\ pc \in {"boot", "exit"}
        /\ msg = <<>>
        /\ announced = "no"
        /\ att = NoAttempt
        /\ results = <<>>
        /\ market_map = <<>>
        /\ lastMsg \in {NoFile, Junk}
        /\ ~startupFlag

\* main has returned for want of credentials
C11_Witness == ~creds /\ pc = "exit"

\* C12: the fetches of a cycle are all outstanding when the loop suspends in
\* the gather, and the loop leaves the gather only when none is outstanding:
\* while one is, the frame still holds its placeholders, no analysis has been
\* asked for or received, and the cycle has made no snapshot attempt.
C12_AllThenProceed ==
    [][/\ (pc # "gather" /\ pc' = "gather") => results' = AllPending
       /\ (pc = "gather" /\ pc' # "gather") => Outstanding(results) = {}
       /\ (pc' \in {"analyze", "snap_send", "sleep"}) => Outstanding(results') = {}
       /\ (pc' = "gather" /\ Outstanding(results') # {}) =>
              /\ market_map' = [s \in SymSet |-> Placeholder]
              /\ candle_map' = [s \in SymSet |-> <<>>]
              /\ prompt' = <<>>
              /\ analysis' = None
              /\ msg' = <<>>
              /\ (pc = "gather" => att' = att)]_vars

\* fetches completed out of order, one still outstanding, the loop still suspended
C12_Witness ==
    /\ pc = "gather"
    /\ Outstanding(results) = {1}
    /\ IsException(results[2])
    /\ results[9] = F(7)

\* C13: a cycle goes fetch and aggregate, analyze, notify, sleep, in that order
\* and once: it makes exactly one snapshot attempt, between its gather and its
\* sleep; the sleep it asks for is max(0, POLL_INTERVAL - elapsed), counted from
\* the start of this cycle alone, so a cycle that took the interval or longer
\* asks for no sleep at all; and the next cycle starts when the sleep is over.
C13_OneCyclePerWake ==
    [][/\ (pc = "gather" /\ pc' \notin {"gather", "boot"}) =>
              /\ pc' \in {"analyze", "snap_send", "sleep"}
              /\ Gathered'
              /\ market_map' = AggregateMarket([s \in SymSet |-> Placeholder], results')
              /\ candle_map' = AggregateCandles(results')
       /\ (pc = "analyze" /\ pc' \notin {"analyze", "boot"}) => pc' \in {"snap_send", "sleep"}
       /\ (pc = "snap_send" /\ pc' \notin {"snap_send", "boot"}) => pc' = "sleep"
       /\ (pc = "sleep" /\ pc' \notin {"sleep", "boot"}) =>
              (pc' = "gather" /\ now >= wake /\ start' = now)
       /\ Attempt <=> (pc \in {"gather", "analyze"} /\ pc' \in {"snap_send", "sleep"})
       /\ (pc # "sleep" /\ pc' = "sleep") =>
              /\ wake' = now + Max(0, POLL_INTERVAL * TicksPerSec - (now - start))
              /\ (now - start >= POLL_INTERVAL * TicksPerSec => wake' = now)]_vars

\* a cycle that took longer than the interval has just asked for a sleep of zero
C13_Witness ==
    /\ pc = "sleep"
    /\ now - start > POLL_INTERVAL * TicksPerSec
    /\ wake = now
    /\ att.at >= start

\* C14: every cycle starts from a frame of placeholders and fills it from its
\* own fetches alone: after the gather, a field whose fetch failed holds None
\* (an empty sequence for the candles), whatever the cycle before had fetched.
C14_RebuiltEachCycle ==
    [][/\ (pc # "gather" /\ pc' = "gather") =>
              /\ market_map' = [s \in SymSet |-> Placeholder]
              /\ candle_map' = [s \in SymSet |-> <<>>]
       /\ (pc = "gather" /\ pc' \notin {"gather", "boot"}) =>
              \A i \in 1..Len(SYMBOLS) :
                 LET s == SYMBOLS[i]
                     tick == TickRes(results', i)
                     cand == CandRes(results', i)
                     oi == OiRes(results', i)
                 IN  /\ (IsException(tick) \/ IsNone(tick)) =>
                            (IsNone(market_map'[s].price) /\ IsNone(market_map'[s].volume))
                     /\ (IsException(cand) \/ IsNone(cand)) => candle_map'[s] = <<>>
                     /\ (IsException(oi) \/ IsNone(oi)) => IsNone(market_map'[s].oi)]_vars

\* the cycle before fetched everything; in this one the three fetches of the
\* first instrument failed and its frame entry holds nothing of the cycle before
C14_Witness ==
    /\ prev_ok
    /\ Gathered
    /\ TickerFailed(1)
    /\ IsException(CandRes(results, 1))
    /\ IsNone(OiRes(results, 1))
    /\ market_map[SYMBOLS[1]] = Placeholder
    /\ candle_map[SYMBOLS[1]] = <<>>

TestPcs == {"test_sleep", "test_fetch", "test_analyze", "test_send"}
LoopPcs == {"gather", "analyze", "snap_send", "sleep"}

\* C15: with TEST_MODE set, and only then, a process runs send_startup_test
\* once, after send_startup_once and before its first cycle: it fetches the
\* two test instruments, analyzes and makes its delivery call whatever the
\* cooldown marker holds,
\* without calling send_snapshot_message and without a write to the marker.
C15_ForcedTest ==
    [][/\ (pc \in TestPcs \/ pc' \in TestPcs) => (lastMsg' = lastMsg /\ att' = att)
       /\ (pc = "test_sleep" /\ pc' \notin {"test_sleep", "boot"}) => pc' = "test_fetch"
       /\ (pc = "test_fetch" /\ pc' \notin {"test_fetch", "boot"}) =>
              pc' \in {"test_analyze", "test_send"}
       /\ (pc = "test_analyze" /\ pc' \notin {"test_analyze", "boot"}) => pc' = "test_send"
       /\ (pc # "test_send" /\ pc' = "test_send") =>
              (msg' # <<>> /\ DOMAIN market_map' = Range(TEST_SYMBOLS))
       /\ (pc = "test_send" /\ pc' \notin {"test_send", "boot"}) =>
              (pc' = "gather" /\ start' = now)
       /\ (pc # "test_sleep" /\ pc' = "test_sleep") =>
              (TEST_MODE /\ pc \in {"boot", "startup_send"} /\ announced' # "no")
       /\ (pc \in {"boot", "startup_send"} /\ pc' \in LoopPcs) => ~TEST_MODE
       /\ pc \in LoopPcs => pc' \notin TestPcs]_vars

\* the forced snapshot is being delivered while the marker says a snapshot was
\* sent less than the cooldown ago
C15_Witness ==
    /\ pc = "test_send"
    /\ msg # <<>>
    /\ InCooldown(lastMsg, now)

C17_CheckThenSend ==
    [][/\ (peer.pc = "idle" /\ peer'.pc = "sending") =>
              (~InCooldown(lastMsg, now) /\ lastMsg' = lastMsg)
       /\ (Attempt /\ att'.called) => (~InCooldown(lastMsg, now) /\ lastMsg' = lastMsg)
       /\ lastMsg' # lastMsg =>
              \/ (pc = "snap_send" /\ pc' = "sleep" /\ att'.ok)
              \/ (peer.pc = "sending" /\ peer'.pc = "idle" /\ peer'.ok)]_vars

\* both instances passed the test and delivered, less than the cooldown apart,
\* although the first of them recorded its delivery in the marker
C17_Witness ==
    /\ pc = "sleep"
    /\ att.called /\ att.ok /\ att.marked
    /\ peer.pc = "idle" /\ peer.ok
    /\ att.at <= peer.at
    /\ peer.at - att.at < MSG_COOLDOWN * TicksPerSec

\* C18 as stated: an attempt that finds the marker absent or unreadable makes
\* its delivery call, and a marker write that fails after a delivery that
\* returned True does not raise and leaves the marker exactly as it was.
C18_Original ==
    [][/\ (Attempt /\ lastMsg.k # "int") => (att'.called /\ pc' = "snap_send")
       /\ (pc = "snap_send" /\ pc' \notin {"snap_send", "boot"}) => pc' = "sleep"
       /\ (pc = "snap_send" /\ pc' = "sleep" /\ att'.ok /\ ~att'.marked) =>
              lastMsg' = lastMsg]_vars

\* C18: an attempt that finds the marker absent or unreadable makes its
\* delivery call; a marker write that fails after a delivery that returned True
\* does not raise, and leaves the marker as it was or without content, which
\* the gate never reads as a recent send.
C18_FailsOpen ==
    [][/\ (Attempt /\ lastMsg.k # "int") => (att'.called /\ pc' = "snap_send")
       /\ (pc = "snap_send" /\ pc' \notin {"snap_send", "boot"}) => pc' = "sleep"
       /\ (pc = "snap_send" /\ pc' = "sleep" /\ att'.ok /\ ~att'.marked) =>
              /\ lastMsg' \in {lastMsg, Junk}
              /\ ~_recent_message_sent(lastMsg', now)]_vars

\* a delivery went out past a marker without content, and its own marker write failed
C18_Witness ==
    /\ pc = "sleep"
    /\ att.called /\ att.ok /\ ~att.marked
    /\ att.prev = "sent"
    /\ lastMsg = Junk

\* the last attempt was suppressed, and the cooldown of the marker and one
\* polling interval more end within the modelled time
SuppressedInTime ==
    /\ pc = "sleep"
    /\ ~att.called
    /\ lastMsg.k = "int"
    /\ (lastMsg.ts + MSG_COOLDOWN) * TicksPerSec + POLL_INTERVAL * TicksPerSec <= GateMaxNow

\* C19: a suppressed attempt leaves the marker as it was, and so, with the clock
\* advancing and the loop running, a suppressed attempt is followed by a cycle
\* that passes the gate and makes its delivery call (for every marker whose
\* cooldown and one polling interval more end within the modelled time).
C19_SuppressionEnds ==
    /\ [][(Attempt /\ ~att'.called) => lastMsg' = lastMsg]_vars
    /\ SuppressedInTime ~> (pc = "snap_send")

\* a delivery call made by the cycle after a suppressed one, POLL_INTERVAL being
\* shorter than MSG_COOLDOWN
C19_Witness ==
    /\ pc = "snap_send"
    /\ att.prev = "skipped"
    /\ lastMsg.k = "int"
    /\ (lastMsg.ts + MSG_COOLDOWN) * TicksPerSec + POLL_INTERVAL * TicksPerSec <= GateMaxNow
    /\ POLL_INTERVAL < MSG_COOLDOWN

\* C20: a process makes the startup delivery call at most once, at its start
\* and before its first cycle; when the call fails the startup flag stays unset
\* and the process goes on to the forced test and the polling loop all the
\* same, from where no startup delivery call is made again.
C20_OneStartupAttempt ==
    [][/\ (pc # "startup_send" /\ pc' = "startup_send") => (pc = "boot" /\ ~startupFlag)
       /\ (pc = "startup_send" /\ pc' \notin {"startup_send", "boot"}) =>
              /\ pc' = IF TEST_MODE THEN "test_sleep" ELSE "gather"
              /\ announced' \in {"ok", "failed"}
              /\ announced' = "failed" => (~startupFlag' /\ startupFlag' = startupFlag)
       /\ (pc \in TestPcs \cup LoopPcs) =>
              (pc' # "startup_send" /\ announced' = announced /\ startupFlag' = startupFlag)]_vars

\* the announcement failed, the flag is unset, and the process is polling
C20_Witness ==
    /\ announced = "failed"
    /\ ~startupFlag
    /\ pc = "sleep"
    /\ att.seq # NoAttempt.seq

====
